---- MODULE Spec2Model ----
(***************************************************************************)
(* Model of USaveLoadManager (SaveLoadManager.h / SaveLoadManager.cpp):    *)
(* a keyed binary store kept in one file.  The file is a byte sequence;    *)
(* records are written and read back through the archive operator<< of     *)
(* FSerializedData, and every mutation reads the whole file, edits the     *)
(* record list and writes the whole file again.                            *)
(***************************************************************************)
EXTENDS Integers, Sequences, FiniteSets, TLC

(***************************************************************************)
(* Bounds of the model and the inputs callers are taken to pass.           *)
(***************************************************************************)
\* file operations (reads, writes, deletes) that may fail in one run
MaxFaults == 1

\* keys callers use: "", "a", "A" and "b" ("a" == "A" for FString)
Keys == {<<>>, <<97>>, <<65>>, <<98>>}

\* the values callers save, as (DataType, Data): an IntType entry with a
\* one-byte payload and a BoolType entry with an empty payload
Values == {[DataType |-> 2, Data |-> <<42>>], [DataType |-> 1, Data |-> <<>>]}

\* values a byte of memory that was never written is taken to hold
Indeterminate == {0, 97}

\* MAX_int32
MaxInt32 == 2147483647

\* int32 values converted: 0, -1, the ends of the range, byte boundaries
IntValues ==
    {0, 1, 0 - 1, MaxInt32, (0 - MaxInt32) - 1, 255, 256, 0 - 256, 65535, 0 - 65536}

\* every 8-bit enumeration value
EnumValues == 0..255

\* the widths in bytes of the wider EnumToByteArray overloads
WideWidths == {2, 4, 8}

\* enumeration values passed to the overload of width w
WideEnumValues(w) ==
    {0, 1, 255, 256, 257, 65535} \cup (IF w > 2 THEN {65536, MaxInt32} ELSE {})

\* texts converted: "", "a", "ab", "Health", and texts with a character
\* outside ASCII (U+00E9, U+20AC)
Texts == {<<>>, <<97>>, <<97, 98>>, <<72, 101, 97, 108, 116, 104>>,
          <<233>>, <<97, 8364>>}

\* the threads that call the manager at the same time
Threads == {1, 2}

\* calls the threads make in all, at most, when calls overlap
MaxCalls == 3

(***************************************************************************)
(* Fixed-width integers of the archive (little-endian, two's complement).  *)
(***************************************************************************)
\* width in bytes of the int32 length prefixes of FString and TArray
Int32Bytes == 4

\* the slip that puts the most significant byte first
RECURSIVE ToBytesBE(_, _)
ToBytesBE(n, w) ==
    IF w = 0 THEN <<>>
    ELSE ToBytesBE(n \div 256, w - 1) \o <<n % 256>>

\* the w bytes of the two's complement number n, least significant first
\* (\div rounds down and % is never negative, so this holds for n < 0 too)
RECURSIVE ToBytesLE(_, _)
ToBytesLE(n, w) ==
    IF w = 0 THEN <<>>
    ELSE <<n % 256>> \o ToBytesLE(n \div 256, w - 1)

\* the unsigned value of a little-endian byte sequence
RECURSIVE FromBytesLE(_)
FromBytesLE(bs) ==
    IF Len(bs) = 0 THEN 0
    ELSE bs[1] + 256 * FromBytesLE(Tail(bs))

\* the signed value of a little-endian two's complement byte sequence
RECURSIVE SignedFromBytesLE(_)
SignedFromBytesLE(bs) ==
    IF Len(bs) = 1 THEN (IF bs[1] >= 128 THEN bs[1] - 256 ELSE bs[1])
    ELSE bs[1] + 256 * SignedFromBytesLE(Tail(bs))

\* MIN_int32
MinInt32 == (0 - 2147483647) - 1

(***************************************************************************)
(* FSerializedData and its operator<< on a saving archive (FMemoryWriter). *)
(***************************************************************************)
FSerializedData(dataType, key, data) ==
    [DataType |-> dataType, Key |-> key, Data |-> data]

\* Ar << int32
WriteInt32(n) == ToBytesLE(n, Int32Bytes)

IsPureAnsi(s) == \A i \in 1..Len(s) : s[i] <= 127

RECURSIVE WriteWideChars(_)
WriteWideChars(s) ==
    IF Len(s) = 0 THEN <<>>
    ELSE ToBytesLE(Head(s), 2) \o WriteWideChars(Tail(s))

\* the slip that counts and writes the characters without the terminator
WriteFStringNoTerminator(s) == WriteInt32(Len(s)) \o s

\* Ar << FString: the character count with the terminator (negated for
\* UTF-16 text), then the characters and the terminator; "" is the count 0
WriteFString(s) ==
    IF Len(s) = 0 THEN WriteInt32(0)
    ELSE IF IsPureAnsi(s) THEN WriteInt32(Len(s) + 1) \o s \o <<0>>
    ELSE WriteInt32(0 - (Len(s) + 1)) \o WriteWideChars(s) \o <<0, 0>>

\* Ar << TArray<uint8>: the element count, then the bytes
WriteTArray(d) == WriteInt32(Len(d)) \o d

\* operator<<(FArchive&, FSerializedData&), saving
WriteRecord(r) == <<r.DataType>> \o WriteFString(r.Key) \o WriteTArray(r.Data)

\* for (DataEntry : ExistingData) MemoryWriter << DataEntry;
RECURSIVE WriteAll(_)
WriteAll(recs) ==
    IF Len(recs) = 0 THEN <<>>
    ELSE WriteRecord(Head(recs)) \o WriteAll(Tail(recs))

(***************************************************************************)
(* FMemoryReader: a read position and a sticky error flag.  Serialize      *)
(* copies only when the requested bytes are all there; otherwise it sets   *)
(* the error flag, and an archive in error reads nothing any more.         *)
(***************************************************************************)
MemoryReader == [Offset |-> 0, Error |-> FALSE]

\* FArchive::AtEnd(): Tell() >= TotalSize()
AtEnd(bytes, rd) == rd.Offset >= Len(bytes)

\* FMemoryReader::Serialize(Data, Num); done says whether bytes were copied
Serialize(bytes, rd, num) ==
    IF num = 0 \/ rd.Error
      THEN [rd |-> rd, done |-> FALSE, got |-> <<>>]
    ELSE IF rd.Offset + num <= Len(bytes)
      THEN [rd   |-> [Offset |-> rd.Offset + num, Error |-> FALSE],
            done |-> TRUE,
            got  |-> SubSeq(bytes, rd.Offset + 1, rd.Offset + num)]
    ELSE [rd |-> [Offset |-> rd.Offset, Error |-> TRUE], done |-> FALSE, got |-> <<>>]

\* Ar << int32 into a variable that holds 0
ReadInt32(bytes, rd) ==
    LET s == Serialize(bytes, rd, Int32Bytes)
    IN  [rd |-> s.rd, val |-> IF s.done THEN SignedFromBytesLE(s.got) ELSE 0]

RECURSIVE ReadWideChars(_)
ReadWideChars(bs) ==
    IF Len(bs) < 2 THEN <<>>
    ELSE <<FromBytesLE(SubSeq(bs, 1, 2))>> \o ReadWideChars(SubSeq(bs, 3, Len(bs)))

\* the text of a character buffer: the characters before the first NUL
RECURSIVE CString(_)
CString(chars) ==
    IF Len(chars) = 0 \/ Head(chars) = 0 THEN <<>>
    ELSE <<Head(chars)>> \o CString(Tail(chars))

\* Ar << FString, loading into an empty string.  uninit counts the characters
\* of the buffer that were allocated but never filled (a failed Serialize).
ReadFString(bytes, rd) ==
    LET n       == ReadInt32(bytes, rd)
        wide    == n.val < 0
        SaveNum == IF wide THEN 0 - n.val ELSE n.val
        s       == Serialize(bytes, n.rd, IF wide THEN 2 * SaveNum ELSE SaveNum)
        chars   == IF wide THEN ReadWideChars(s.got) ELSE s.got
    IN  IF n.val = MinInt32
          THEN [rd |-> [Offset |-> n.rd.Offset, Error |-> TRUE], str |-> <<>>, uninit |-> 0]
        ELSE IF SaveNum = 0 THEN [rd |-> n.rd, str |-> <<>>, uninit |-> 0]
        ELSE IF s.done
          THEN [rd |-> s.rd, str |-> SubSeq(chars, 1, SaveNum - 1), uninit |-> 0]
        ELSE [rd |-> s.rd, str |-> <<>>, uninit |-> SaveNum - 1]

\* Ar << TArray<uint8>, loading into an empty array
ReadTArray(bytes, rd) ==
    LET n == ReadInt32(bytes, rd)
        s == Serialize(bytes, n.rd, n.val)
    IN  IF n.val = 0 THEN [rd |-> n.rd, data |-> <<>>, uninit |-> 0]
        ELSE IF n.rd.Error \/ n.val < 0
          THEN [rd |-> [Offset |-> n.rd.Offset, Error |-> TRUE], data |-> <<>>, uninit |-> 0]
        ELSE IF s.done THEN [rd |-> s.rd, data |-> s.got, uninit |-> 0]
        ELSE [rd |-> s.rd, data |-> <<>>, uninit |-> n.val]

\* FSerializedData SerializedData; MemoryReader << SerializedData;
\* DataType has no initialiser: when its byte is not read it stays
\* indeterminate (tagUninit), as do unfilled characters and payload bytes.
ReadRecord(bytes, rd) ==
    LET t == Serialize(bytes, rd, 1)
        k == ReadFString(bytes, t.rd)
        d == ReadTArray(bytes, k.rd)
    IN  [rd         |-> d.rd,
         rec        |-> FSerializedData(IF t.done THEN t.got[1] ELSE 0, k.str, d.data),
         tagUninit  |-> ~t.done,
         keyUninit  |-> k.uninit,
         dataUninit |-> d.uninit]

RECURSIVE SeqsOfLen(_, _)
SeqsOfLen(S, n) ==
    IF n = 0 THEN {<<>>}
    ELSE {Append(s, x) : s \in SeqsOfLen(S, n - 1), x \in S}

\* the records the variable SerializedData can hold after the read r
Candidates(r) ==
    {FSerializedData(t, k, d) :
        t \in (IF r.tagUninit THEN Indeterminate ELSE {r.rec.DataType}),
        k \in (IF r.keyUninit > 0
                 THEN SeqsOfLen(Indeterminate, r.keyUninit)
                 ELSE {r.rec.Key}),
        d \in (IF r.dataUninit > 0
                 THEN SeqsOfLen(Indeterminate, r.dataUninit)
                 ELSE {r.rec.Data})}

\* while (!MemoryReader.AtEnd()) { MemoryReader << SerializedData;
\*                                 ExistingData.Add(SerializedData); }
\* Every way the loop can go for the file content bytes: the list it builds,
\* or diverged when a pass leaves the reader where it was (it then repeats
\* for ever, adding an entry each time).
RECURSIVE ReadExistingData(_, _)
ReadExistingData(bytes, rd) ==
    IF AtEnd(bytes, rd) THEN {[ExistingData |-> <<>>, diverged |-> FALSE]}
    ELSE LET r == ReadRecord(bytes, rd)
         IN  IF r.rd = rd THEN {[ExistingData |-> <<>>, diverged |-> TRUE]}
             ELSE {[ExistingData |-> <<c>> \o more.ExistingData,
                    diverged     |-> more.diverged] :
                      c \in Candidates(r), more \in ReadExistingData(bytes, r.rd)}

\* the whole records at the front of a file content: those read before the
\* reader runs out of bytes
RECURSIVE WholeRecords(_, _)
WholeRecords(bytes, rd) ==
    IF AtEnd(bytes, rd) THEN <<>>
    ELSE LET r == ReadRecord(bytes, rd)
         IN  IF r.rd.Error THEN <<>>
             ELSE <<r.rec>> \o WholeRecords(bytes, r.rd)

FileRecords(bytes) == WholeRecords(bytes, MemoryReader)

(***************************************************************************)
(* FString operator==: FPlatformString::Stricmp(...) == 0, which ignores   *)
(* the case of ASCII letters.                                              *)
(***************************************************************************)
ToLower(c) == IF c >= 65 /\ c <= 90 THEN c + 32 ELSE c

\* Stricmp compares the texts, which end at the first NUL
KeyEquals(a, b) ==
    LET x == CString(a)
        y == CString(b)
    IN  /\ Len(x) = Len(y)
        /\ \A i \in 1..Len(x) : ToLower(x[i]) = ToLower(y[i])

\* the slips that remove no entry, and every entry
RemoveAllNothing(recs, Key) == recs

RemoveAllEverything(recs, Key) == <<>>

\* the slip that keeps the right entries but last to first
RECURSIVE Reversed(_)
Reversed(recs) ==
    IF Len(recs) = 0 THEN <<>>
    ELSE Append(Reversed(Tail(recs)), Head(recs))

RemoveAllReversed(recs, Key) ==
    Reversed(SelectSeq(recs, LAMBDA e : ~KeyEquals(e.Key, Key)))

\* ExistingData.RemoveAll([&Key](Entry) { return Entry.Key == Key; })
RemoveAll(recs, Key) == SelectSeq(recs, LAMBDA e : ~KeyEquals(e.Key, Key))

\* the scan of LoadData: every way the loop can end for the file content
\* bytes.  found carries OutData/OutDataType; diverged is the loop that
\* never leaves (the reader is in error and no longer moves).
RECURSIVE LoadScan(_, _, _)
LoadScan(bytes, rd, Key) ==
    IF AtEnd(bytes, rd) THEN {[ret |-> "false", set |-> FALSE, OutData |-> <<>>, OutDataType |-> 0]}
    ELSE LET r == ReadRecord(bytes, rd)
         IN  UNION {IF KeyEquals(c.Key, Key)
                      THEN {[ret |-> "true", set |-> TRUE,
                             OutData |-> c.Data, OutDataType |-> c.DataType]}
                    ELSE IF r.rd = rd
                      THEN {[ret |-> "diverged", set |-> FALSE, OutData |-> <<>>, OutDataType |-> 0]}
                    ELSE LoadScan(bytes, r.rd, Key) : c \in Candidates(r)}

(***************************************************************************)
(* The file system the manager talks to, for the one path in use.          *)
(***************************************************************************)
VARIABLES
    fileExists,   \* FPaths::FileExists(SaveFilePath)
    fileBytes,    \* the bytes of the file (<<>> while it does not exist)
    faults,       \* file operations that have failed so far
    last,         \* the call made last: arguments, result, file operations
    prev,         \* the call before it, when that was a mutation of the same
                  \* key that succeeded
    codec,        \* the typed value conversion made last
    threads,      \* the calls in progress when calls overlap
    m,            \* the abstract map, keys told apart character by character
    mFolded       \* the abstract map, keys told apart as FString == does
                  \* (both kept only in the runs that compare the store with them)

vars == <<fileExists, fileBytes, faults, last, prev, codec, threads, m, mFolded>>

\* the abstract key-to-(type tag, payload) map run beside the store: a set of
\* entries with one entry per key.  Same(a, b) says when two keys are one.
\* NoMap is the map of the runs that keep none; EmptyMap the map at the start
\* of the runs that keep one.
NoMap == [on |-> FALSE, entries |-> {}]

EmptyMap == [on |-> TRUE, entries |-> {}]

Exactly(a, b) == a = b

MapSet(map, Same(_, _), Key, DataType, Data) ==
    {e \in map : ~Same(e.Key, Key)} \cup {FSerializedData(DataType, Key, Data)}

MapRemove(map, Same(_, _), Key) == {e \in map : ~Same(e.Key, Key)}

MapGet(map, Same(_, _), Key) == {e \in map : Same(e.Key, Key)}

\* no conversion made yet
NoConversion == [fn |-> "none"]

\* no call in progress
NoThreads == <<>>

\* FFileHelper::SaveArrayToFile(ByteArray, path): the whole array replaces
\* the file; a failed write leaves the file as it was (the writer could not
\* be opened) or created and cut short (the write failed part-way).
SaveArrayToFile(ByteArray) ==
    {[ok |-> TRUE, exists |-> TRUE, bytes |-> ByteArray]}
    \cup (IF faults < MaxFaults
            THEN {[ok |-> FALSE, exists |-> fileExists, bytes |-> fileBytes]}
                 \cup {[ok |-> FALSE, exists |-> TRUE, bytes |-> SubSeq(ByteArray, 1, n)] :
                          n \in 0..(Len(ByteArray) - 1)}
          ELSE {})

\* FFileHelper::LoadFileToArray(ByteArray, path): succeeds or fails
LoadFileToArray == IF faults < MaxFaults THEN {TRUE, FALSE} ELSE {TRUE}

Bool(b) == IF b THEN "true" ELSE "false"

NoOut == [ret |-> "false", set |-> FALSE, OutData |-> <<>>, OutDataType |-> 0]

\* what a call did: reads and writes count the file operations it made,
\* failed names the one that failed, removed is what RemoveAll took out,
\* set says whether OutData and OutDataType were assigned
Call(op, Key, Data, DataType, ret, out, reads, writes, failed, removed) ==
    [op |-> op, Key |-> Key, Data |-> Data, DataType |-> DataType, ret |-> ret,
     set |-> out.set, OutData |-> out.OutData, OutDataType |-> out.OutDataType,
     reads |-> reads, writes |-> writes, failed |-> failed, removed |-> removed]

NoCall == [op |-> "none", Key |-> <<>>, Data |-> <<>>, DataType |-> 0, removed |-> 0]

\* what is remembered of the call before the last one, when both have the
\* same key: a SaveData or DeleteData that returned true, with its
\* arguments; NoCall otherwise
Brief(c) ==
    IF c.op \in {"SaveData", "DeleteData"} /\ c.ret = "true"
      THEN [op |-> c.op, Key |-> c.Key, Data |-> c.Data, DataType |-> c.DataType,
            removed |-> c.removed]
    ELSE NoCall

\* a call that never returns leaves nothing to be called after it
Running == last.ret # "diverged"

\* the abstract map after a call: set by a SaveData that returned true, the
\* key removed by a DeleteData that returned true, emptied when DeleteFile
\* deleted the file, and as it was otherwise
MapAfter(map, Same(_, _), call) ==
    IF ~map.on THEN map
    ELSE IF call.op = "SaveData" /\ call.ret = "true"
      THEN [map EXCEPT !.entries =
              MapSet(map.entries, Same, call.Key, call.DataType, call.Data)]
    ELSE IF call.op = "DeleteData" /\ call.ret = "true"
      THEN [map EXCEPT !.entries = MapRemove(map.entries, Same, call.Key)]
    ELSE IF call.op = "DeleteFile" /\ call.failed = "none"
      THEN EmptyMap
    ELSE map

Returns(call) ==
    /\ last' = call
    /\ prev' = IF last.Key = call.Key THEN Brief(last) ELSE NoCall
    /\ faults' = IF call.failed = "none" THEN faults ELSE faults + 1
    /\ m' = MapAfter(m, Exactly, call)
    /\ mFolded' = MapAfter(mFolded, KeyEquals, call)
    /\ UNCHANGED <<codec, threads>>

Init ==
    /\ fileExists = FALSE
    /\ fileBytes = <<>>
    /\ faults = 0
    /\ last = Call("none", <<>>, <<>>, 0, "void", NoOut, 0, 0, "none", 0)
    /\ prev = Brief(last)
    /\ codec = NoConversion
    /\ threads = NoThreads
    /\ m = NoMap
    /\ mFolded = NoMap

\* the slip that reports true whatever SaveArrayToFile returned
WriteBackReportsTrue(op, Key, Data, DataType, ByteArray, reads, removed) ==
    \E w \in SaveArrayToFile(ByteArray) :
       /\ fileExists' = w.exists
       /\ fileBytes' = w.bytes
       /\ Returns(Call(op, Key, Data, DataType, "true", NoOut, reads, 1,
                       IF w.ok THEN "none" ELSE "write", removed))

\* the write that ends SaveData and DeleteData, and the value returned
WriteBack(op, Key, Data, DataType, ByteArray, reads, removed) ==
    \E w \in SaveArrayToFile(ByteArray) :
       /\ fileExists' = w.exists
       /\ fileBytes' = w.bytes
       /\ Returns(Call(op, Key, Data, DataType, Bool(w.ok), NoOut, reads, 1,
                       IF w.ok THEN "none" ELSE "write", removed))

\* a call that changes nothing in the file
NoWrite(call) == UNCHANGED <<fileExists, fileBytes>> /\ Returns(call)

\* SaveData, the branch taken when the file exists: read it all, drop the
\* entries with the key, add the new entry, write it all
SaveExisting(Key, Data, DataType) ==
    \E readOK \in LoadFileToArray :
       IF readOK
         THEN \E read \in ReadExistingData(fileBytes, MemoryReader) :
                LET kept    == RemoveAll(read.ExistingData, Key)
                    NewData == FSerializedData(DataType, Key, Data)
                IN  IF read.diverged
                      THEN NoWrite(Call("SaveData", Key, Data, DataType, "diverged",
                                        NoOut, 1, 0, "none", 0))
                    ELSE WriteBack("SaveData", Key, Data, DataType,
                                   WriteAll(Append(kept, NewData)), 1,
                                   Len(read.ExistingData) - Len(kept))
       ELSE NoWrite(Call("SaveData", Key, Data, DataType, "false", NoOut, 1, 0, "read", 0))

\* the slip that writes the new file without serializing NewData into it
SaveNewEmpty(Key, Data, DataType) ==
    WriteBack("SaveData", Key, Data, DataType, <<>>, 0, 0)

\* SaveData, the branch taken when the file does not exist
SaveNew(Key, Data, DataType) ==
    WriteBack("SaveData", Key, Data, DataType,
              WriteRecord(FSerializedData(DataType, Key, Data)), 0, 0)

\* bool USaveLoadManager::SaveData(Key, Data, DataType, SaveFilePath)
SaveData(Key, Data, DataType) ==
    /\ Running
    /\ IF fileExists THEN SaveExisting(Key, Data, DataType)
       ELSE SaveNew(Key, Data, DataType)

\* bool USaveLoadManager::LoadData(Key, OutData, OutDataType, SaveFilePath)
LoadData(Key) ==
    /\ Running
    /\ IF fileExists
         THEN \E readOK \in LoadFileToArray :
                IF readOK
                  THEN \E o \in LoadScan(fileBytes, MemoryReader, Key) :
                         NoWrite(Call("LoadData", Key, <<>>, 0, o.ret, o, 1, 0, "none", 0))
                ELSE NoWrite(Call("LoadData", Key, <<>>, 0, "false", NoOut, 1, 0, "read", 0))
       ELSE NoWrite(Call("LoadData", Key, <<>>, 0, "false", NoOut, 0, 0, "none", 0))

\* the slip that writes the file back without serializing what was kept
DeleteExistingWritesNothing(Key) ==
    \E readOK \in LoadFileToArray :
       IF readOK
         THEN \E read \in ReadExistingData(fileBytes, MemoryReader) :
                LET kept == RemoveAll(read.ExistingData, Key)
                IN  IF read.diverged
                      THEN NoWrite(Call("DeleteData", Key, <<>>, 0, "diverged",
                                        NoOut, 1, 0, "none", 0))
                    ELSE WriteBack("DeleteData", Key, <<>>, 0, <<>>, 1,
                                   Len(read.ExistingData) - Len(kept))
       ELSE NoWrite(Call("DeleteData", Key, <<>>, 0, "false", NoOut, 1, 0, "read", 0))

\* DeleteData, the branch taken when the file exists: read it all, drop the
\* entries with the key, write the rest
DeleteExisting(Key) ==
    \E readOK \in LoadFileToArray :
       IF readOK
         THEN \E read \in ReadExistingData(fileBytes, MemoryReader) :
                LET kept == RemoveAll(read.ExistingData, Key)
                IN  IF read.diverged
                      THEN NoWrite(Call("DeleteData", Key, <<>>, 0, "diverged",
                                        NoOut, 1, 0, "none", 0))
                    ELSE WriteBack("DeleteData", Key, <<>>, 0, WriteAll(kept), 1,
                                   Len(read.ExistingData) - Len(kept))
       ELSE NoWrite(Call("DeleteData", Key, <<>>, 0, "false", NoOut, 1, 0, "read", 0))

\* the slip that leaves out the FileExists test of DeleteData
DeleteDataUnchecked(Key) == Running /\ DeleteExisting(Key)

\* the slip that deletes the file once its last entry is removed
DeleteDataDropsEmptyFile(Key) ==
    /\ Running
    /\ IF fileExists /\ WriteAll(RemoveAll(WholeRecords(fileBytes, MemoryReader), Key)) = <<>>
         THEN /\ fileExists' = FALSE
              /\ fileBytes' = <<>>
              /\ Returns(Call("DeleteData", Key, <<>>, 0, "true", NoOut, 1, 0, "none", 0))
       ELSE IF fileExists THEN DeleteExisting(Key)
       ELSE NoWrite(Call("DeleteData", Key, <<>>, 0, "false", NoOut, 0, 0, "none", 0))

\* bool USaveLoadManager::DeleteData(Key, SaveFilePath)
DeleteData(Key) ==
    /\ Running
    /\ IF fileExists THEN DeleteExisting(Key)
       ELSE NoWrite(Call("DeleteData", Key, <<>>, 0, "false", NoOut, 0, 0, "none", 0))

\* void USaveLoadManager::DeleteFile(FileName): the platform delete may fail
DeleteFile ==
    /\ Running
    /\ IF fileExists
         THEN \E bSuccess \in LoadFileToArray :
                /\ fileExists' = ~bSuccess
                /\ fileBytes' = (IF bSuccess THEN <<>> ELSE fileBytes)
                /\ Returns(Call("DeleteFile", <<>>, <<>>, 0, "void", NoOut, 0, 0,
                                IF bSuccess THEN "none" ELSE "delete", 0))
       ELSE NoWrite(Call("DeleteFile", <<>>, <<>>, 0, "void", NoOut, 0, 0, "none", 0))

Next ==
    \/ \E Key \in Keys, v \in Values : SaveData(Key, v.Data, v.DataType)
    \/ \E Key \in Keys : LoadData(Key)
    \/ \E Key \in Keys : DeleteData(Key)
    \/ DeleteFile

Spec == Init /\ [][Next]_vars

(***************************************************************************)
(* The same calls, made one at a time with every file operation            *)
(* succeeding (no failure is left in the budget), and the abstract maps    *)
(* kept beside the store.                                                  *)
(***************************************************************************)
InitMap ==
    /\ fileExists = FALSE
    /\ fileBytes = <<>>
    /\ faults = MaxFaults
    /\ last = Call("none", <<>>, <<>>, 0, "void", NoOut, 0, 0, "none", 0)
    /\ prev = Brief(last)
    /\ codec = NoConversion
    /\ threads = NoThreads
    /\ m = EmptyMap
    /\ mFolded = EmptyMap

SpecMap == InitMap /\ [][Next]_vars

(***************************************************************************)
(* Calls that overlap.  SaveData and DeleteData hold no lock: the          *)
(* FileExists test, the read of the whole file and the write of the whole  *)
(* file of one call are three steps, and steps of other calls on the same  *)
(* path can come between them.  Reads and writes succeed here (no failure  *)
(* is left in the budget).                                                 *)
(***************************************************************************)
\* a thread between calls; calls counts the calls it has begun, asked holds
\* the entries its SaveData calls were given to store
Idle(calls) ==
    [pc |-> "idle", op |-> "none", Key |-> <<>>, Data |-> <<>>, DataType |-> 0,
     exists |-> FALSE, ExistingData |-> <<>>, ret |-> "void", calls |-> calls,
     asked |-> {}]

\* the calls begun so far by all threads
CallsBegun ==
    Cardinality({p \in Threads \X (1..MaxCalls) : p[2] <= threads[p[1]].calls})

InitConcurrent ==
    /\ fileExists = FALSE
    /\ fileBytes = <<>>
    /\ faults = MaxFaults
    /\ last = Call("none", <<>>, <<>>, 0, "void", NoOut, 0, 0, "none", 0)
    /\ prev = Brief(last)
    /\ codec = NoConversion
    /\ threads = [t \in Threads |-> Idle(0)]
    /\ m = NoMap
    /\ mFolded = NoMap

\* what a step of a thread leaves alone
sequential == <<faults, last, prev, codec, m, mFolded>>

\* the call begins and makes its test if (FPaths::FileExists(SaveFilePath));
\* DeleteData with no file returns false at once
Check(t, op, Key, Data, DataType) ==
    /\ threads[t].pc \in {"idle", "done"}
    /\ CallsBegun < MaxCalls
    /\ threads' = [threads EXCEPT ![t] =
          [pc |-> IF fileExists THEN "read"
                  ELSE IF op = "SaveData" THEN "write" ELSE "done",
           op |-> op, Key |-> Key, Data |-> Data, DataType |-> DataType,
           exists |-> fileExists, ExistingData |-> <<>>,
           ret |-> IF ~fileExists /\ op = "DeleteData" THEN "false" ELSE "void",
           calls |-> threads[t].calls + 1,
           asked |-> IF op = "SaveData"
                       THEN threads[t].asked \cup {FSerializedData(DataType, Key, Data)}
                     ELSE threads[t].asked]]
    /\ UNCHANGED <<fileExists, fileBytes>>
    /\ UNCHANGED sequential

\* FFileHelper::LoadFileToArray and the decode loop, on the file as it is now
Read(t) ==
    /\ threads[t].pc = "read"
    /\ \E readOK \in LoadFileToArray :
          IF readOK
            THEN \E read \in ReadExistingData(fileBytes, MemoryReader) :
                   threads' = [threads EXCEPT
                      ![t].pc = IF read.diverged THEN "diverged" ELSE "write",
                      ![t].ExistingData = read.ExistingData]
          ELSE threads' = [threads EXCEPT ![t].pc = "done", ![t].ret = "false"]
    /\ UNCHANGED <<fileExists, fileBytes>>
    /\ UNCHANGED sequential

\* the bytes the call writes: made from what it read, not from the file as
\* it is when the write happens
ByteArrayOf(c) ==
    LET NewData == FSerializedData(c.DataType, c.Key, c.Data)
        kept    == RemoveAll(c.ExistingData, c.Key)
    IN  IF c.op = "DeleteData" THEN WriteAll(kept)
        ELSE IF c.exists THEN WriteAll(Append(kept, NewData))
        ELSE WriteRecord(NewData)

\* the variant that reads the file again just before it writes, as a call
\* holding a lock would
WriteLocked(t) ==
    /\ threads[t].pc = "write"
    /\ \E read \in ReadExistingData(fileBytes, MemoryReader) :
       \E w \in SaveArrayToFile(ByteArrayOf(
                  [threads[t] EXCEPT !.ExistingData = read.ExistingData,
                                     !.exists = fileExists])) :
          /\ fileExists' = w.exists
          /\ fileBytes' = w.bytes
          /\ threads' = [threads EXCEPT ![t].pc = "done", ![t].ret = Bool(w.ok)]
    /\ UNCHANGED sequential

\* FFileHelper::SaveArrayToFile and the return
Write(t) ==
    /\ threads[t].pc = "write"
    /\ \E w \in SaveArrayToFile(ByteArrayOf(threads[t])) :
          /\ fileExists' = w.exists
          /\ fileBytes' = w.bytes
          /\ threads' = [threads EXCEPT ![t].pc = "done", ![t].ret = Bool(w.ok)]
    /\ UNCHANGED sequential

NextConcurrent ==
    \/ \E t \in Threads, Key \in Keys, v \in Values :
          Check(t, "SaveData", Key, v.Data, v.DataType)
    \/ \E t \in Threads, Key \in Keys : Check(t, "DeleteData", Key, <<>>, 0)
    \/ \E t \in Threads : Read(t)
    \/ \E t \in Threads : Write(t)

SpecConcurrent == InitConcurrent /\ [][NextConcurrent]_vars

(***************************************************************************)
(* The typed value codecs of SaveLoadManager.h: each writes the value      *)
(* through an FMemoryWriter (or copies its bytes) and reads it back        *)
(* through an FMemoryReader into a variable that holds a default.          *)
(***************************************************************************)
\* MemoryWriter << Value (int32)
IntToByteArray(Value) == WriteInt32(Value)

\* int32 Value = 0; MemoryReader << Value;
ByteArrayToInt(ByteArray) == ReadInt32(ByteArray, MemoryReader).val

\* MemoryWriter << Value (bool): the archive writes a bool as a 32-bit 0 or 1
BoolToByteArray(Value) == ToBytesLE(IF Value THEN 1 ELSE 0, Int32Bytes)

\* bool Value = false; MemoryReader << Value;
ByteArrayToBool(ByteArray) ==
    LET s == Serialize(ByteArray, MemoryReader, Int32Bytes)
    IN  s.done /\ (\E i \in 1..Len(s.got) : s.got[i] # 0)

\* MemoryWriter << Value (FString)
FStringToByteArray(Value) == WriteFString(Value)

\* FString Value; MemoryReader << Value;
ByteArrayToFString(ByteArray) == ReadFString(ByteArray, MemoryReader).str

\* EnumToByteArray(uint8): MemoryWriter << EnumValue; the overloads for
\* uint16, uint32 and uint64: Memcpy of the sizeof(EnumValue) bytes of the
\* value (little-endian on every platform the engine builds for)
EnumToByteArray(EnumValue, width) == ToBytesLE(EnumValue, width)

\* the slip that decodes every byte of the array
ByteArrayToEnumWhole(ByteArray) == FromBytesLE(ByteArray)

\* uint8 EnumValue = 0; MemoryReader << EnumValue;
ByteArrayToEnum(ByteArray) ==
    LET s == Serialize(ByteArray, MemoryReader, 1)
    IN  IF s.done THEN s.got[1] ELSE 0

\* a conversion and the conversion back of its result
Conversion(fn, width, v, bytes, back) ==
    [fn |-> fn, width |-> width, value |-> v, bytes |-> bytes, back |-> back]

\* what a conversion leaves alone: the file and the calls
store == <<fileExists, fileBytes, faults, last, prev, threads, m, mFolded>>

ConvertInt ==
    \E v \in IntValues :
       /\ codec' = Conversion("Int", Int32Bytes, v, IntToByteArray(v),
                              ByteArrayToInt(IntToByteArray(v)))
       /\ UNCHANGED store

ConvertBool ==
    \E v \in BOOLEAN :
       /\ codec' = Conversion("Bool", Int32Bytes, v, BoolToByteArray(v),
                              ByteArrayToBool(BoolToByteArray(v)))
       /\ UNCHANGED store

ConvertFString ==
    \E v \in Texts :
       /\ codec' = Conversion("FString", 0, v, FStringToByteArray(v),
                              ByteArrayToFString(FStringToByteArray(v)))
       /\ UNCHANGED store

ConvertEnum ==
    \E v \in EnumValues :
       /\ codec' = Conversion("Enum", 1, v, EnumToByteArray(v, 1),
                              ByteArrayToEnum(EnumToByteArray(v, 1)))
       /\ UNCHANGED store

ConvertWideEnum ==
    \E w \in WideWidths : \E v \in WideEnumValues(w) :
       /\ codec' = Conversion("WideEnum", w, v, EnumToByteArray(v, w),
                              ByteArrayToEnum(EnumToByteArray(v, w)))
       /\ UNCHANGED store

NextCodec ==
    \/ ConvertInt
    \/ ConvertBool
    \/ ConvertFString
    \/ ConvertEnum
    \/ ConvertWideEnum

SpecCodec == Init /\ [][NextCodec]_vars
(***************************************************************************)
(* Vocabulary of the properties.                                           *)
(***************************************************************************)
\* a well-formed record sequence: whole records back to back, nothing else
WellFormed(bytes) == WriteAll(FileRecords(bytes)) = bytes

\* the records of a list that a key selects (the == of the code)
WithKey(recs, Key) == SelectSeq(recs, LAMBDA e : KeyEquals(e.Key, Key))

Stored(bytes, Key) == Len(WithKey(FileRecords(bytes), Key)) > 0

OneRecordPerKey(recs) ==
    \A i, j \in 1..Len(recs) : recs[i].Key = recs[j].Key => i = j

(***************************************************************************)
(* C1.  Starting from no file, after any sequence of SaveData, DeleteData  *)
(* and LoadData calls made one at a time, the file holds at most one       *)
(* record per distinct key.                                                *)
(***************************************************************************)
C1_OneRecordPerKey == OneRecordPerKey(FileRecords(fileBytes))

(***************************************************************************)
(* C2.  If SaveData(k, d, t) returns true, a LoadData(k) made right after  *)
(* it (and able to read the file) returns true with OutData = d and        *)
(* OutDataType = t.                                                        *)
(***************************************************************************)
C2_SaveThenLoad ==
    [][(/\ last.op = "SaveData" /\ last.ret = "true"
        /\ last'.op = "LoadData" /\ last'.Key = last.Key /\ last'.failed = "none")
       => (/\ last'.ret = "true"
           /\ last'.set
           /\ last'.OutData = last.Data
           /\ last'.OutDataType = last.DataType)]_vars

C2_Witness ==
    /\ last.op = "LoadData" /\ last.ret = "true" /\ last.OutData = <<42>>
    /\ prev.op = "SaveData" /\ prev.Key = last.Key /\ prev.Data = <<42>>

(***************************************************************************)
(* C3.  After a successful SaveData(k, d1, t1) followed by a successful    *)
(* SaveData(k, d2, t2) the file holds exactly one record with key k, the   *)
(* record (k, d2, t2).                                                     *)
(***************************************************************************)
C3_SecondSaveReplaces ==
    (/\ last.op = "SaveData" /\ last.ret = "true"
     /\ prev.op = "SaveData" /\ prev.Key = last.Key)
    => (/\ fileExists
        /\ WellFormed(fileBytes)
        /\ WithKey(FileRecords(fileBytes), last.Key)
             = <<FSerializedData(last.DataType, last.Key, last.Data)>>)

C3_Witness ==
    /\ last.op = "SaveData" /\ last.ret = "true" /\ last.removed = 1
    /\ prev.op = "SaveData" /\ prev.Key = last.Key
    /\ <<prev.Data, prev.DataType>> # <<last.Data, last.DataType>>

(***************************************************************************)
(* C4.  After a successful DeleteData(k), LoadData(k) returns false, also  *)
(* when k was the only key and the rewritten file is there but empty.      *)
(***************************************************************************)
C4_DeleteThenLoad ==
    [][(/\ last.op = "DeleteData" /\ last.ret = "true"
        /\ last'.op = "LoadData" /\ last'.Key = last.Key)
       => (last'.ret = "false" /\ ~last'.set)]_vars

C4_Witness ==
    /\ last.op = "LoadData" /\ last.ret = "false" /\ last.reads = 1 /\ last.failed = "none"
    /\ prev.op = "DeleteData" /\ prev.Key = last.Key /\ prev.removed = 1
    /\ fileExists /\ fileBytes = <<>>

(***************************************************************************)
(* C5.  With two different keys a and b both stored in the file, a         *)
(* successful DeleteData(a) leaves what LoadData(b) returns (result,       *)
(* payload and type tag) as it was.                                        *)
(***************************************************************************)
C5_DeleteKeepsOthers ==
    [][\A b \in Keys :
         (/\ last'.op = "DeleteData" /\ last'.ret = "true"
          /\ fileExists
          /\ ~KeyEquals(last'.Key, b)
          /\ Stored(fileBytes, last'.Key)
          /\ Stored(fileBytes, b))
         => LoadScan(fileBytes', MemoryReader, b) = LoadScan(fileBytes, MemoryReader, b)]_vars

C5_Witness ==
    /\ last.op = "DeleteData" /\ last.ret = "true" /\ last.removed = 1
    /\ \E b \in Keys :
          /\ ~KeyEquals(last.Key, b)
          /\ LoadScan(fileBytes, MemoryReader, b)
               = {[ret |-> "true", set |-> TRUE, OutData |-> <<42>>, OutDataType |-> 2]}

(***************************************************************************)
(* C6.  Making the same successful SaveData(k, d, t) a second time leaves  *)
(* the record sequence of the file (count, order, content) as it was after *)
(* the first.                                                              *)
(***************************************************************************)
C6_SaveIdempotent ==
    [][(/\ last.op = "SaveData" /\ last.ret = "true"
        /\ last'.op = "SaveData" /\ last'.ret = "true"
        /\ last'.Key = last.Key /\ last'.Data = last.Data /\ last'.DataType = last.DataType)
       => (/\ WellFormed(fileBytes')
           /\ FileRecords(fileBytes') = FileRecords(fileBytes))]_vars

C6_Witness ==
    /\ last.op = "SaveData" /\ last.ret = "true" /\ last.removed = 1
    /\ prev.op = "SaveData" /\ prev.Key = last.Key
    /\ prev.Data = last.Data /\ prev.DataType = last.DataType
    /\ Len(FileRecords(fileBytes)) = 2

(***************************************************************************)
(* C7.  With no file at the path and a write that succeeds, SaveData(k, d, *)
(* t) returns true, the new file holds exactly the record (k, t, d), and   *)
(* no read is attempted.                                                   *)
(***************************************************************************)
C7_SaveCreates ==
    [][(~fileExists /\ last'.op = "SaveData" /\ last'.failed = "none")
       => (/\ last'.ret = "true"
           /\ last'.reads = 0
           /\ fileExists'
           /\ WellFormed(fileBytes')
           /\ FileRecords(fileBytes')
                = <<FSerializedData(last'.DataType, last'.Key, last'.Data)>>)]_vars

C7_Witness ==
    /\ last.op = "SaveData" /\ last.ret = "true" /\ last.reads = 0 /\ last.writes = 1
    /\ FileRecords(fileBytes) = <<FSerializedData(2, <<97>>, <<42>>)>>

(***************************************************************************)
(* C8.  Life of the file.  As claimed: a file that is not there comes to   *)
(* be only through a SaveData that returns true; LoadData never changes    *)
(* whether the file is there nor its bytes; none of SaveData, LoadData and *)
(* DeleteData makes a file that is there go away.                          *)
(***************************************************************************)
LoadDataLeavesFile ==
    last'.op = "LoadData" => UNCHANGED <<fileExists, fileBytes>>

NoCallRemovesFile ==
    (fileExists /\ last'.op \in {"SaveData", "LoadData", "DeleteData"}) => fileExists'

DeleteOfLastKeyLeavesEmptyFile ==
    (/\ last'.op = "DeleteData" /\ last'.ret = "true"
     /\ WellFormed(fileBytes)
     /\ FileRecords(fileBytes) # <<>>
     /\ WithKey(FileRecords(fileBytes), last'.Key) = FileRecords(fileBytes))
    => (fileExists' /\ fileBytes' = <<>>)

C8_Lifecycle ==
    [][/\ (~fileExists /\ fileExists') => (last'.op = "SaveData" /\ last'.ret = "true")
       /\ LoadDataLeavesFile
       /\ NoCallRemovesFile
       /\ DeleteOfLastKeyLeavesEmptyFile]_vars

\* C8 as amended: the file also comes to be through a SaveData whose write
\* fails part-way, which returns false and leaves a file cut short.
C8_LifecycleAmended ==
    [][/\ (~fileExists /\ fileExists')
            => (/\ last'.op = "SaveData" /\ last'.writes = 1
                /\ \/ last'.ret = "true"
                   \/ last'.ret = "false" /\ last'.failed = "write")
       /\ LoadDataLeavesFile
       /\ NoCallRemovesFile
       /\ DeleteOfLastKeyLeavesEmptyFile]_vars

C8_Witness ==
    /\ last.op = "SaveData" /\ last.ret = "false" /\ last.reads = 0
    /\ last.failed = "write" /\ fileExists

(***************************************************************************)
(* C9.  DeleteData on a path with no file returns false, reads nothing,    *)
(* writes nothing, and there is still no file afterwards.                  *)
(***************************************************************************)
C9_DeleteNoFile ==
    [][(~fileExists /\ last'.op = "DeleteData")
       => (/\ last'.ret = "false"
           /\ last'.reads = 0
           /\ last'.writes = 0
           /\ ~fileExists'
           /\ fileBytes' = fileBytes)]_vars

C9_Witness ==
    /\ last.op = "DeleteData" /\ last.ret = "false" /\ last.reads = 0 /\ last.writes = 0
    /\ ~fileExists

Deleted(Key) ==
    /\ fileExists /\ Stored(fileBytes, Key)
    /\ fileExists' /\ ~Stored(fileBytes', Key)

C11_DeleteTrueIffDeleted ==
    [][last'.op = "DeleteData"
       => (last'.ret = "true" <=> Deleted(last'.Key))]_vars

(***************************************************************************)
(* C12.  A LoadData whose read of the existing file fails gives the caller *)
(* a result (return value and out parameters) that differs from the one    *)
(* NotFound gives.                                                         *)
(***************************************************************************)
Result(call) ==
    [ret |-> call.ret, set |-> call.set,
     OutData |-> call.OutData, OutDataType |-> call.OutDataType]

\* what LoadData gives for a key that is not in the file
NotFound(Key) == LoadScan(<<>>, MemoryReader, Key)

C12_ReadFailureDistinct ==
    [][(last'.op = "LoadData" /\ last'.failed = "read")
       => Result(last') \notin NotFound(last'.Key)]_vars

(***************************************************************************)
(* C13.  SaveData on an existing file that is not a sequence of whole      *)
(* records returns false and writes nothing: the bytes stay as they were.  *)
(***************************************************************************)
C13_SaveRejectsMalformed ==
    [][(last'.op = "SaveData" /\ fileExists /\ ~WellFormed(fileBytes))
       => (/\ last'.ret = "false"
           /\ last'.writes = 0
           /\ fileBytes' = fileBytes)]_vars

(***************************************************************************)
(* C14.  No record that was only partly read is accepted: LoadData returns *)
(* true only with the payload and type tag of a whole record of the file   *)
(* that has the key, and DeleteData writes back only whole records of the  *)
(* file.                                                                   *)
(***************************************************************************)
IsRecordOf(e, recs) == \E i \in 1..Len(recs) : recs[i] = e

C14_NoPartialRecord ==
    [][/\ (last'.op = "LoadData" /\ last'.ret = "true")
            => \E i \in 1..Len(FileRecords(fileBytes)) :
                  LET e == FileRecords(fileBytes)[i]
                  IN  /\ KeyEquals(e.Key, last'.Key)
                      /\ e.Data = last'.OutData
                      /\ e.DataType = last'.OutDataType
       /\ (last'.op = "DeleteData" /\ last'.ret = "true")
            => \A i \in 1..Len(FileRecords(fileBytes')) :
                  IsRecordOf(FileRecords(fileBytes')[i], FileRecords(fileBytes))]_vars

(***************************************************************************)
(* C15.  SaveData returns false when its read of the existing file fails   *)
(* and when its write fails, and true only when the write succeeded; when  *)
(* the read fails nothing is written and the file stays as it was.         *)
(***************************************************************************)
C15_SaveReportsFailure ==
    [][last'.op = "SaveData"
       => (/\ last'.failed = "read"
                => (/\ last'.ret = "false"
                    /\ last'.writes = 0
                    /\ UNCHANGED <<fileExists, fileBytes>>)
           /\ last'.failed = "write" => last'.ret = "false"
           /\ last'.ret = "true"
                => (/\ last'.failed = "none"
                    /\ last'.writes = 1
                    /\ fileExists'
                    /\ Stored(fileBytes', last'.Key)))]_vars

C15_Witness ==
    /\ last.op = "SaveData" /\ last.ret = "false" /\ last.failed = "read"
    /\ last.reads = 1 /\ last.writes = 0
    /\ fileExists /\ FileRecords(fileBytes) # <<>>

(***************************************************************************)
(* C19.  A SaveData(k, d, t) that returns true on an existing well-formed  *)
(* file with record sequence L writes L without the records of key k, the  *)
(* rest unchanged and in the order they had, then the record (k, t, d).    *)
(***************************************************************************)
\* the records of a list whose key differs from Key, in the order they have
OtherKeys(recs, Key) == SelectSeq(recs, LAMBDA e : ~KeyEquals(e.Key, Key))

C17_RoundTrip ==
    codec.fn \in {"Int", "Bool", "Enum", "FString"} => codec.back = codec.value

C17_Witness ==
    /\ codec.fn = "Int" /\ codec.value = (0 - MaxInt32) - 1
    /\ codec.bytes = <<0, 0, 0, 128>>
    /\ codec.back = codec.value

(***************************************************************************)
(* C18.  ByteArrayToEnum gives the first stored byte of a value written by *)
(* the 16-, 32- or 64-bit EnumToByteArray: a value that does not fit in 8  *)
(* bits comes back as another value (the value modulo 256).                *)
(***************************************************************************)
C18_WideEnumFirstByte ==
    codec.fn = "WideEnum"
    => (/\ Len(codec.bytes) = codec.width
        /\ codec.back = codec.bytes[1]
        /\ codec.back = codec.value % 256
        /\ codec.value > 255 => codec.back # codec.value)

C18_Witness ==
    /\ codec.fn = "WideEnum" /\ codec.width = 4 /\ codec.value = 256
    /\ codec.bytes = <<0, 1, 0, 0>>
    /\ codec.back = 0

(***************************************************************************)
(* C16.  Lost update.  A SaveData that returns true leaves in the file, of *)
(* every key but its own, what the call saw when it tested and read the    *)
(* file, whatever other calls wrote since: of two overlapping SaveData     *)
(* calls with different keys that both return true, the file can end up    *)
(* with the record of the last writer only.                                *)
(***************************************************************************)
C16_LastWriterWins ==
    [][\A t \in Threads :
         (/\ threads[t].pc = "write" /\ threads[t].op = "SaveData"
          /\ threads'[t].pc = "done" /\ threads'[t].ret = "true")
         => \A b \in Keys :
               ~KeyEquals(b, threads[t].Key)
               => WithKey(FileRecords(fileBytes'), b)
                    = WithKey(threads[t].ExistingData, b)]_vars

\* both calls have returned true and the record of thread 1 is not there
C16_Witness ==
    /\ \A t \in Threads :
          /\ threads[t].pc = "done" /\ threads[t].op = "SaveData"
          /\ threads[t].ret = "true" /\ threads[t].calls = 1
    /\ ~KeyEquals(threads[1].Key, threads[2].Key)
    /\ ~Stored(fileBytes, threads[1].Key)
    /\ FileRecords(fileBytes)
         = <<FSerializedData(threads[2].DataType, threads[2].Key, threads[2].Data)>>

(***************************************************************************)
(* C22.  Every call of SaveData, LoadData and DeleteData returns, whatever *)
(* the file holds: each pass of the decode loop moves the read position or *)
(* leaves the loop.                                                        *)
(***************************************************************************)
C22_EveryCallReturns == last.ret # "diverged"

(***************************************************************************)
(* C23.  Key uniqueness under races.  With SaveData and DeleteData calls   *)
(* overlapping in any way (test, read and write each one step, reads and   *)
(* writes succeeding), every content the file ever has holds at most one   *)
(* record per key, and each record is one some SaveData call was given to  *)
(* store.                                                                  *)
(***************************************************************************)
\* the entries the SaveData calls begun so far were given
Asked == UNION {threads[t].asked : t \in Threads}

C23_UniqueUnderRaces ==
    LET recs == FileRecords(fileBytes)
    IN  /\ WellFormed(fileBytes)
        /\ \A i, j \in 1..Len(recs) : KeyEquals(recs[i].Key, recs[j].Key) => i = j
        /\ \A i \in 1..Len(recs) : recs[i] \in Asked

\* a SaveData and a DeleteData that overlapped (both read before either
\* wrote) have returned true, and the file holds two records
C23_Witness ==
    /\ \A t \in Threads : threads[t].pc = "done" /\ threads[t].ret = "true"
    /\ threads[1].op = "SaveData" /\ threads[1].calls = 2
    /\ threads[2].op = "DeleteData" /\ threads[2].calls = 1
    /\ Len(FileRecords(fileBytes)) = 2
    /\ Stored(fileBytes, threads[2].Key)

(***************************************************************************)
(* C21.  The store refines a key-to-(type tag, payload) map.  As claimed:  *)
(* with the map m set on each SaveData that returns true and the key       *)
(* removed on each DeleteData that returns true, LoadData(k) returns true  *)
(* with (d, t) exactly when m[k] = (t, d) and false exactly when k is not  *)
(* in m.                                                                   *)
(***************************************************************************)
\* the result of the last call, a LoadData, is what the map gives for its key
LoadAgrees(map, Same(_, _)) ==
    LET hit == MapGet(map, Same, last.Key)
    IN  /\ hit = {} => (last.ret = "false" /\ ~last.set)
        /\ \A e \in hit :
              /\ last.ret = "true" /\ last.set
              /\ last.OutData = e.Data
              /\ last.OutDataType = e.DataType

====
